---- MODULE Spec2Model ----
(***************************************************************************)
(* Model of package configparser (kwkoo/configparser): ParseWithDir binds  *)
(* the fields of a record from config files, environment variables and     *)
(* command-line flags; RetrieveConfigDirectory resolves the config          *)
(* directory.  Strings are sequences of one-character strings so that the   *)
(* conversions (strings.ToLower, strings.ToUpper, strconv.Atoi) are         *)
(* computed, not assumed.                                                   *)
(***************************************************************************)
EXTENDS Integers, Sequences, FiniteSets, TLC

(***************************************************************************)
(* Bounds of the model.                                                    *)
(***************************************************************************)
\* longest generated input string of the coercion specification
MaxLen == 2
\* longest generated argv (os.Args[1:]) of the binder specification
MaxArgs == 2
\* the caller starts over only while log.Printf has written fewer lines
MaxLog == 3

(***************************************************************************)
(* Strings.                                                                *)
(***************************************************************************)
UpperChars == <<"A","B","C","D","E","F","G","H","I","J","K","L","M",
                "N","O","P","Q","R","S","T","U","V","W","X","Y","Z">>
LowerChars == <<"a","b","c","d","e","f","g","h","i","j","k","l","m",
                "n","o","p","q","r","s","t","u","v","w","x","y","z">>
Digits == <<"0","1","2","3","4","5","6","7","8","9">>

\* unicode.ToLower on one ASCII character
ToLowerChar(c) ==
    IF \E j \in 1..26 : UpperChars[j] = c
    THEN LowerChars[CHOOSE j \in 1..26 : UpperChars[j] = c]
    ELSE c

\* unicode.ToUpper on one ASCII character
ToUpperChar(c) ==
    IF \E j \in 1..26 : LowerChars[j] = c
    THEN UpperChars[CHOOSE j \in 1..26 : LowerChars[j] = c]
    ELSE c

\* strings.ToLower
ToLower(s) == [j \in 1..Len(s) |-> ToLowerChar(s[j])]

\* strings.ToUpper
ToUpper(s) == [j \in 1..Len(s) |-> ToUpperChar(s[j])]

IsDigit(c) == \E j \in 1..10 : Digits[j] = c

DigitVal(c) == (CHOOSE j \in 1..10 : Digits[j] = c) - 1

\* the digits of s read as a base-10 number (n = n*10 + ch)
RECURSIVE DigitsVal(_)
DigitsVal(s) ==
    IF Len(s) = 0 THEN 0
    ELSE DigitsVal(SubSeq(s, 1, Len(s) - 1)) * 10 + DigitVal(s[Len(s)])

\* s with one leading sign removed
Unsigned(s) ==
    IF Len(s) > 0 /\ (s[1] = "-" \/ s[1] = "+") THEN Tail(s) ELSE s

\* s with its leading "0" characters removed
RECURSIVE StripZeros(_)
StripZeros(s) ==
    IF Len(s) > 0 /\ s[1] = "0" THEN StripZeros(Tail(s)) ELSE s

\* the digits of 1<<63 - 1, the largest int (int is 64 bits wide)
MaxIntDigits ==
    <<"9","2","2","3","3","7","2","0","3","6","8","5","4","7","7","5","8","0","7">>

\* for digit strings of one length: a reads as a number no larger than b
RECURSIVE DigitsLeq(_, _)
DigitsLeq(a, b) ==
    IF Len(a) = 0 THEN TRUE
    ELSE IF DigitVal(a[1]) # DigitVal(b[1]) THEN DigitVal(a[1]) < DigitVal(b[1])
    ELSE DigitsLeq(Tail(a), Tail(b))

\* the digits m, without leading zeros and negated when neg, fit the 64-bit
\* int: at most 1<<63 - 1, or 1<<63 when negated (strconv.ParseInt's range
\* error otherwise)
InIntRange(m, neg) ==
    \/ Len(m) < 19
    \/ /\ Len(m) = 19
       /\ DigitsLeq(m, IF neg THEN [MaxIntDigits EXCEPT ![19] = "8"] ELSE MaxIntDigits)

\* strconv.Atoi reports no error: an optional sign, then one or more digits
\* whose value fits the 64-bit int
AtoiOk(s) ==
    /\ Len(Unsigned(s)) >= 1
    /\ \A j \in 1..Len(Unsigned(s)) : IsDigit(Unsigned(s)[j])
    /\ InIntRange(StripZeros(Unsigned(s)), s[1] = "-")

\* strconv.Atoi's value where AtoiOk (the inputs of the specifications have
\* values of at most four digits)
AtoiVal(s) ==
    IF Len(s) > 0 /\ s[1] = "-" THEN 0 - DigitsVal(Unsigned(s))
    ELSE DigitsVal(Unsigned(s))

(***************************************************************************)
(* Field kinds, field storage and errors.                                  *)
(***************************************************************************)
\* reflect.String, reflect.Int, reflect.Bool; "Float" stands for every
\* unsupported kind
Kinds == {"String", "Int", "Bool"}

\* The storage of one field: the component of its kind holds the value,
\* the other components stay zero.
ZeroCell == [str |-> <<>>, int |-> 0, bool |-> FALSE]
StrCell(s) == [str |-> s, int |-> 0, bool |-> FALSE]
IntCell(n) == [str |-> <<>>, int |-> n, bool |-> FALSE]
BoolCell(b) == [str |-> <<>>, int |-> 0, bool |-> b]

\* a nil error
NoError == [msg |-> "nil", configType |-> "", keyName |-> <<>>, val |-> <<>>, count |-> 0]

\* fmt.Errorf("%s %s must be an integer - instead it is: %v", ...)
IntegerError(configType, keyName, val) ==
    [msg |-> "must be an integer", configType |-> configType,
     keyName |-> keyName, val |-> val, count |-> 0]

\* fmt.Errorf("%s %s is of an unknown type: %v", ...)
UnknownTypeError(configType, keyName, val) ==
    [msg |-> "is of an unknown type", configType |-> configType,
     keyName |-> keyName, val |-> val, count |-> 0]

\* fmt.Errorf("%d mandatory parameters missing", missingCount)
MissingError(n) ==
    [msg |-> "mandatory parameters missing", configType |-> "",
     keyName |-> <<>>, val |-> <<>>, count |-> n]

\* an error of the operating system returned as it is (getFileContents)
ReadError ==
    [msg |-> "read error", configType |-> "file", keyName |-> <<>>, val |-> <<>>, count |-> 0]

\* the strings the Boolean coercion maps to false
FalseWords == {<<"0">>, <<"f">>, <<"f","a","l","s","e">>, <<"n">>, <<"n","o">>}

\* a coercion that knows only the words "0", "f" and "false"
BoolOfOld(val) == ToLower(val) \notin {<<"0">>, <<"f">>, <<"f","a","l","s","e">>}

\* the Boolean a string coerces to
BoolOf(val) == ToLower(val) \notin FalseWords

\* a setParam that stores 0 when the integer conversion fails
setParamZeroed(fieldKind, isSet, cell, val, configType, keyName) ==
    IF fieldKind = "String"
    THEN [isSet |-> TRUE, cell |-> StrCell(val), err |-> NoError]
    ELSE IF fieldKind = "Int"
    THEN IF AtoiOk(val)
         THEN [isSet |-> TRUE, cell |-> IntCell(AtoiVal(val)), err |-> NoError]
         ELSE [isSet |-> TRUE, cell |-> IntCell(0),
               err |-> IntegerError(configType, keyName, val)]
    ELSE IF fieldKind = "Bool"
    THEN [isSet |-> TRUE, cell |-> BoolCell(BoolOf(val)), err |-> NoError]
    ELSE [isSet |-> isSet, cell |-> cell,
          err |-> UnknownTypeError(configType, keyName, val)]

\* param.setParam: the binding's kind, its isSet mark and its field's storage
\* before the call, and the raw value; gives the mark, the storage and the
\* error after the call.
setParam(fieldKind, isSet, cell, val, configType, keyName) ==
    IF fieldKind = "String"
    THEN [isSet |-> TRUE, cell |-> StrCell(val), err |-> NoError]
    ELSE IF fieldKind = "Int"
    THEN IF AtoiOk(val)
         THEN [isSet |-> TRUE, cell |-> IntCell(AtoiVal(val)), err |-> NoError]
         ELSE [isSet |-> TRUE, cell |-> cell,
               err |-> IntegerError(configType, keyName, val)]
    ELSE IF fieldKind = "Bool"
    THEN [isSet |-> TRUE, cell |-> BoolCell(BoolOf(val)), err |-> NoError]
    ELSE [isSet |-> isSet, cell |-> cell,
          err |-> UnknownTypeError(configType, keyName, val)]

(***************************************************************************)
(* The state.                                                              *)
(***************************************************************************)
VARIABLES
    env,      \* the environment: a function from the names that are set to their values
    args,     \* os.Args[1:]
    tree,     \* the directory the caller names: its entries in filepath.WalkDir
              \* order, the root first; <<>> when the directory does not exist
    caller,   \* per thread: the record type and directory it passes to ParseWithDir
    cmdline,  \* flag.CommandLine
    stderr,   \* what was written to flag.CommandLine.Output()
    logOut,   \* the fields log.Printf reported as skipped
    params,   \* var params []*param: the slice of pointers into objs
    arrays,   \* the backing arrays of params and of the slices read from it
    objs,     \* the param objects allocated by the running invocations
    rec,      \* per thread: the storage of the fields of the caller's record
    inv,      \* per thread: the invocation's position and local variables
    proc,     \* "running", or how the process ended: "exited", "panicked"
    cd,       \* the RetrieveConfigDirectory call: arguments and result
    co        \* the setParam call of the coercion specification

vars == <<env, args, tree, caller, cmdline, stderr, logOut, params, arrays, objs, rec, inv,
          proc, cd, co>>

Threads == {1, 2}

(***************************************************************************)
(* Struct tags and record types.                                           *)
(***************************************************************************)
NoTag == [ok |-> FALSE, v |-> <<>>]
Tag(v) == [ok |-> TRUE, v |-> v]

\* reflect.StructTag.Get
TagGet(tag) == tag.v

\* reflect.StructTag.Lookup's second result
TagExists(tag) == tag.ok

NoTags == [file |-> NoTag, env |-> NoTag, flag |-> NoTag, default |-> NoTag,
           usage |-> NoTag, mandatory |-> NoTag]

sHostname == <<"H","o","s","t","n","a","m","e">>
sPort == <<"P","o","r","t">>
sAsync == <<"A","s","y","n","c">>
sHOST == <<"H","O","S","T">>
sHost == <<"h","o","s","t">>
sParam == <<"p","a","r","a","m">>
s8080 == <<"8","0","8","0">>
sTrue == <<"t","r","u","e">>
sText == <<"t","e","x","t">>

\* A field of a record type: its name, kind, whether reflect can set it
\* (an exported field) and its tags.
Field(name, kind, tags) == [name |-> name, kind |-> kind, settable |-> TRUE, tags |-> tags]

HostTags == [NoTags EXCEPT !.env = Tag(sHOST), !.flag = Tag(sHost)]

\* TestBasic's Config
Config ==
    << Field(sHostname, "String", [HostTags EXCEPT !.default = Tag(<<"l","o","c","a","l","h","o","s","t">>)]),
       Field(sPort, "Int", [NoTags EXCEPT !.default = Tag(s8080)]),
       Field(sAsync, "Bool", NoTags) >>

\* ExampleParse's Config: Hostname is mandatory and has a usage text
Example ==
    << Field(sHostname, "String",
             [HostTags EXCEPT !.mandatory = Tag(sTrue), !.usage = Tag(sHost)]),
       Field(sPort, "Int", [NoTags EXCEPT !.default = Tag(s8080)]),
       Field(sAsync, "Bool", NoTags) >>

\* TestMandatory's User: mandatory fields of the three kinds
Mandatory ==
    << Field(sHostname, "String", [HostTags EXCEPT !.mandatory = Tag(sTrue)]),
       Field(sPort, "Int", [NoTags EXCEPT !.mandatory = Tag(sTrue)]),
       Field(sAsync, "Bool", [NoTags EXCEPT !.mandatory = Tag(<<>>)]) >>

\* TestFilesSimple's config: plain fields and one with a file tag
Files ==
    << Field(sPort, "Int", NoTags),
       Field(sAsync, "Bool", NoTags),
       Field(<<"R","e","a","l","P","a","r","a","m">>, "String", [NoTags EXCEPT !.file = Tag(sParam)]) >>

\* mandatory fields with declared defaults (one that does not coerce), a
\* field of an unsupported kind and an unexported field
Defaults ==
    << Field(<<"R","a","t","i","o">>, "Float", NoTags),
       Field(sPort, "Int", [NoTags EXCEPT !.mandatory = Tag(sTrue), !.default = Tag(sText)]),
       [Field(<<"s","e","c","r","e","t">>, "String", NoTags) EXCEPT !.settable = FALSE],
       Field(sAsync, "Bool", [NoTags EXCEPT !.mandatory = Tag(sTrue), !.default = Tag(<<"0">>)]) >>

\* records whose first field has a flag tag that is no name of a flag
BadFlagNames ==
    { << Field(<<"P">>, "String", [NoTags EXCEPT !.flag = Tag(k)]),
         Field(<<"Q">>, "Int", NoTags) >> : k \in {<<"-","p">>, <<"a","=","b">>} }

Schemas == {Config, Example, Mandatory, Files, Defaults} \cup BadFlagNames

(***************************************************************************)
(* The flag registry (package flag of the standard library), as far as     *)
(* ParseWithDir and RetrieveConfigDirectory drive it.                      *)
(***************************************************************************)
\* a line written to flag.CommandLine.Output()
OutLine(kind, flagKey, envKey, err) ==
    [kind |-> kind, flagKey |-> flagKey, envKey |-> envKey, err |-> err]

\* the usage text (flag.Usage, FlagSet.usage)
UsageLine == OutLine("usage", <<>>, <<>>, NoError)

\* flag.NewFlagSet(name, errorHandling)
NewFlagSet(errorHandling) ==
    [errorHandling |-> errorHandling, formal |-> << >>, actual |-> << >>]

\* FlagSet.Var(value, name, usage) (Go 1.17 and later), the cases in which it
\* writes a line to the set's output and panics instead of registering the
\* flag: the name begins with "-", the name contains "=", the name is
\* already registered.  The result is the kind of the line, "" when the flag
\* is registered.
VarPanics(name, formal) ==
    IF Len(name) > 0 /\ name[1] = "-" THEN "flag begins with -"
    ELSE IF \E j \in 1..Len(name) : name[j] = "=" THEN "flag contains ="
    ELSE IF name \in DOMAIN formal THEN "flag redefined"
    ELSE ""

\* a registered flag's value: a *param, or the string of flag.StringVar
ParamValue(ptr) == [kind |-> "param", ptr |-> ptr]
StringValue == [kind |-> "string", ptr |-> <<0, 0>>]

\* The memory a parse writes through the registered values: the records'
\* fields, the param objects, the registry's output, the arguments left,
\* the flags set so far (FlagSet.actual, here with the raw value last
\* accepted) and the string variable of flag.StringVar.
Memory(r, o, out, a, sv) ==
    [rec |-> r, objs |-> o, out |-> out, args |-> a, actual |-> << >>, strvar |-> sv]

\* param.Set through the pointer ptr: setParam(s, "command line flag", p.flagKey)
paramSet(mem, ptr, s) ==
    LET p == mem.objs[ptr]
        r == setParam(p.fieldKind, p.isSet, mem.rec[p.owner][p.field], s,
                      "command line flag", p.flagKey)
    IN [mem |-> [mem EXCEPT !.objs[ptr].isSet = r.isSet,
                            !.rec[p.owner][p.field] = r.cell],
        err |-> r.err]

\* flag.Value.Set of a registered value
ValueSet(mem, value, s) ==
    IF value.kind = "param" THEN paramSet(mem, value.ptr, s)
    ELSE [mem |-> [mem EXCEPT !.strvar = s], err |-> NoError]

\* param.IsBoolFlag (a string variable is no boolean flag)
IsBoolFlag(mem, value) ==
    value.kind = "param" /\ mem.objs[value.ptr].fieldKind = "Bool"

\* FlagSet.failf: the message and the usage go to the output
Failf(mem, kind, name, err) ==
    [seen |-> FALSE, err |-> "error",
     mem |-> [mem EXCEPT !.out = @ \o <<OutLine(kind, name, <<>>, err), UsageLine>>]]

\* the position of the first "=" of name after its first character, or 0
EqualsAt(name) ==
    IF \E j \in 2..Len(name) : name[j] = "="
    THEN CHOOSE j \in 2..Len(name) :
             name[j] = "=" /\ \A h \in 2..(j - 1) : name[h] # "="
    ELSE 0

\* a flag was seen and set: FlagSet.actual[name] = flag
Seen(mem, name, raw) ==
    [seen |-> TRUE, err |-> "",
     mem |-> [mem EXCEPT !.actual = (name :> raw) @@ @]]

\* FlagSet.parseOne on the arguments left in mem.args
parseOne(formal, mem) ==
    IF Len(mem.args) = 0 THEN [seen |-> FALSE, err |-> "", mem |-> mem]
    ELSE
    LET s == mem.args[1]
        numMinuses == IF Len(s) >= 2 /\ s[2] = "-" THEN 2 ELSE 1
        full == SubSeq(s, numMinuses + 1, Len(s))
        eq == EqualsAt(full)
        hasValue == eq # 0
        name == IF hasValue THEN SubSeq(full, 1, eq - 1) ELSE full
        value == IF hasValue THEN SubSeq(full, eq + 1, Len(full)) ELSE <<>>
        rest == [mem EXCEPT !.args = Tail(mem.args)]
    IN
    IF Len(s) < 2 \/ s[1] # "-" THEN [seen |-> FALSE, err |-> "", mem |-> mem]
    ELSE IF numMinuses = 2 /\ Len(s) = 2 THEN [seen |-> FALSE, err |-> "", mem |-> rest]
    ELSE IF Len(full) = 0 \/ full[1] = "-" \/ full[1] = "="
    THEN Failf(mem, "bad flag syntax", s, NoError)
    ELSE IF name \notin DOMAIN formal
    THEN IF name = <<"h","e","l","p">> \/ name = <<"h">>
         THEN [seen |-> FALSE, err |-> "help",
               mem |-> [rest EXCEPT !.out = @ \o <<UsageLine>>]]
         ELSE Failf(rest, "flag provided but not defined", name, NoError)
    ELSE IF IsBoolFlag(rest, formal[name])
    THEN LET raw == IF hasValue THEN value ELSE <<"t","r","u","e">>
             r == ValueSet(rest, formal[name], raw)
         IN IF r.err # NoError
            THEN Failf(r.mem, "invalid boolean value", name, r.err)
            ELSE Seen(r.mem, name, raw)
    ELSE IF ~hasValue /\ Len(rest.args) = 0
    THEN Failf(rest, "flag needs an argument", name, NoError)
    ELSE LET raw == IF hasValue THEN value ELSE rest.args[1]
             after == IF hasValue THEN rest ELSE [rest EXCEPT !.args = Tail(rest.args)]
             r == ValueSet(after, formal[name], raw)
         IN IF r.err # NoError
            THEN Failf(r.mem, "invalid value", name, r.err)
            ELSE Seen(r.mem, name, raw)

\* FlagSet.Parse's loop: parseOne until it sees no flag
RECURSIVE parseLoop(_, _)
parseLoop(formal, mem) ==
    LET r == parseOne(formal, mem)
    IN IF r.seen THEN parseLoop(formal, r.mem) ELSE r

\* How FlagSet.Parse ends for the error of its last parseOne: it returns
\* (the error too, under ContinueOnError), or the process exits or panics.
ParseEnd(errorHandling, err) ==
    IF err = "" \/ errorHandling = "ContinueOnError" THEN "running"
    ELSE IF errorHandling = "ExitOnError" THEN "exited"
    ELSE "panicked"

(***************************************************************************)
(* The environment and the config directory.                               *)
(***************************************************************************)
\* os.LookupEnv
LookupEnv(e, key) ==
    [ok |-> key \in DOMAIN e, v |-> IF key \in DOMAIN e THEN e[key] ELSE <<>>]

\* os.Getenv
Getenv(e, key) == LookupEnv(e, key).v

\* An entry of the directory tree: its path (the names from the root down),
\* its type, its contents and what opening and reading it gives: "ok",
\* "unreadable" (an error other than file-not-found) or "vanished" (the file
\* is removed after the traversal: file-not-found).
Entry(path, type, contents, state) ==
    [path |-> path, type |-> type, contents |-> contents, state |-> state]

\* fs.DirEntry.Name: the base name
BaseName(path) == path[Len(path)]

\* an error for which os.IsNotExist holds
NotExistError ==
    [msg |-> "file does not exist", configType |-> "file", keyName |-> <<>>,
     val |-> <<>>, count |-> 0]

\* a test that takes every error for "file does not exist"
IsNotExistAnyError(err) == err # NoError

IsNotExist(err) == err.msg = "file does not exist"

\* the callback that keeps the path already stored under a base name
RECURSIVE walkFilesFirst(_, _)
walkFilesFirst(entries, n) ==
    IF n = 0 THEN << >>
    ELSE LET files == walkFilesFirst(entries, n - 1)
             entry == entries[n]
         IN IF entry.type # "regular" THEN files
            ELSE files @@ (BaseName(entry.path) :> entry.path)

\* the callback of filepath.WalkDir over the first n entries: a regular
\* file's path is stored under its base name
RECURSIVE walkFiles(_, _)
walkFiles(entries, n) ==
    IF n = 0 THEN << >>
    ELSE LET files == walkFiles(entries, n - 1)
             entry == entries[n]
         IN IF entry.type # "regular" THEN files
            ELSE (BaseName(entry.path) :> entry.path) @@ files

\* allFilesInDirectory panics: WalkDir hands the callback a nil entry for a
\* root it cannot stat, and the callback calls entry.Type()
walkPanics(dir, entries) == dir # <<>> /\ Len(entries) = 0

\* allFilesInDirectory: base name -> path
allFilesInDirectory(dir, entries) ==
    IF dir = <<>> THEN << >> ELSE walkFiles(entries, Len(entries))

\* getFileContents
getFileContents(entries, path) ==
    LET entry == CHOOSE e \in {entries[n] : n \in 1..Len(entries)} : e.path = path
    IN IF entry.state = "vanished" THEN [contents |-> <<>>, err |-> NotExistError]
       ELSE IF entry.state = "unreadable" THEN [contents |-> <<>>, err |-> ReadError]
       ELSE [contents |-> entry.contents, err |-> NoError]

(***************************************************************************)
(* Slices of *param: a slice is a backing array, a length and a capacity.  *)
(***************************************************************************)
\* []*param{}: no backing array
EmptySlice == [arr |-> 0, len |-> 0, cap |-> 0]

\* append(s, x): x goes into the backing array when the capacity allows it,
\* else the elements and x go into a new array of capacity 1, or of twice
\* the old capacity; <<0, 0>> is a slot no append has written
appendSlice(a, s, x) ==
    IF s.len < s.cap
    THEN [arrays |-> [a EXCEPT ![s.arr][s.len + 1] = x],
          slice |-> [s EXCEPT !.len = s.len + 1]]
    ELSE LET id == CHOOSE n \in 1..(Cardinality(DOMAIN a) + 1) :
                      n \notin DOMAIN a /\ \A m \in 1..(n - 1) : m \in DOMAIN a
             c == IF s.cap = 0 THEN 1 ELSE 2 * s.cap
         IN [arrays |-> (id :> [j \in 1..c |-> IF j <= s.len THEN a[s.arr][j]
                                               ELSE IF j = s.len + 1 THEN x
                                               ELSE <<0, 0>>]) @@ a,
             slice |-> [arr |-> id, len |-> s.len + 1, cap |-> c]]

(***************************************************************************)
(* ParseWithDir.                                                           *)
(***************************************************************************)
\* fmt.Errorf("argument must be a pointer to struct - got ... instead")
ArgumentError ==
    [msg |-> "argument must be a pointer to struct", configType |-> "",
     keyName |-> <<>>, val |-> <<>>, count |-> 0]

\* an invocation's local variables before the call
IdleInv ==
    [pc |-> "idle", configFiles |-> << >>, i |-> 0, seen |-> EmptySlice,
     hdr |-> EmptySlice, list |-> << >>, k |-> 0,
     scan |-> EmptySlice, j |-> 0, missingCount |-> 0, ret |-> NoError]

\* the caller's fresh record: every field at the zero value of its type
ZeroRecord(schema) == [n \in 1..Len(schema) |-> ZeroCell]

\* the pointer to the param object of thread t's field n
Ptr(t, n) == <<t, n>>

\* the filename that does not look at the directory argument
fileKeyOfAnyDir(f, dir) ==
    IF TagGet(f.tags.file) = <<>> THEN ToLower(f.name) ELSE TagGet(f.tags.file)

\* the filename of a binding
fileKeyOf(f, dir) ==
    IF dir # <<>>
    THEN IF TagGet(f.tags.file) = <<>> THEN ToLower(f.name) ELSE TagGet(f.tags.file)
    ELSE <<>>

\* the envKey of a binding
envKeyOf(f) ==
    IF Len(TagGet(f.tags.env)) = 0 THEN ToUpper(f.name) ELSE TagGet(f.tags.env)

\* the flagKey of a binding
flagKeyOf(f) ==
    IF Len(TagGet(f.tags.flag)) = 0 THEN ToLower(f.name) ELSE TagGet(f.tags.flag)

\* the param built for field n of thread t's record
newParam(t, n, f, dir) ==
    [filename |-> fileKeyOf(f, dir),
     envKey |-> envKeyOf(f),
     flagKey |-> flagKeyOf(f),
     fieldKind |-> f.kind,
     owner |-> t, field |-> n,
     mandatory |-> TagExists(f.tags.mandatory),
     isSet |-> FALSE]

\* a field the discovery loop skips
skipped(f) == f.kind \notin Kinds \/ ~f.settable

\* whether some thread is inside ParseWithDir
Busy(t) == inv[t].pc \notin {"idle", "returned"}

\* The backing arrays still referenced: by the global slice, by the slice an
\* append has loaded, or by the slice a range loop runs over.
liveArrays(a, slice, invs) ==
    LET kept == {slice.arr}
                  \cup {invs[u].seen.arr : u \in Threads}
                  \cup {invs[u].hdr.arr : u \in Threads}
                  \cup {invs[u].scan.arr : u \in Threads}
    IN [id \in DOMAIN a \cap kept |-> a[id]]

\* The param objects still referenced: those a registered flag, a backing
\* array, a discovery iteration or a running loop of an invocation points to.
live(o, formal, invs, a) ==
    LET kept == {formal[name].ptr : name \in DOMAIN formal}
                  \cup UNION {{invs[u].list[n] : n \in 1..Len(invs[u].list)} : u \in Threads}
                  \cup UNION {{a[id][n] : n \in 1..Len(a[id])} : id \in DOMAIN a}
                  \cup {Ptr(u, invs[u].i) : u \in {v \in Threads :
                                                     invs[v].pc \in {"append", "register"}}}
    IN [ptr \in DOMAIN o \cap kept |-> o[ptr]]

\* a start of ParseWithDir that leaves params as the last call left it
BeginKeepingParams(t) ==
    /\ proc = "running"
    /\ caller[t].active
    /\ ~Busy(t)
    /\ rec' = [rec EXCEPT ![t] = ZeroRecord(caller[t].schema)]
    /\ LET ok == caller[t].arg = "pointer to struct"
           panics == ok /\ walkPanics(caller[t].dir, tree)
           after == [inv EXCEPT ![t] =
                       IF ~ok THEN [IdleInv EXCEPT !.pc = "returned", !.ret = ArgumentError]
                       ELSE IF panics THEN [IdleInv EXCEPT !.pc = "traverse"]
                       ELSE [IdleInv EXCEPT
                               !.pc = IF Len(caller[t].schema) = 0 THEN "parse"
                                      ELSE "discover",
                               !.configFiles = allFilesInDirectory(caller[t].dir, tree),
                               !.i = 1]]
       IN /\ inv' = after
          /\ proc' = IF panics THEN "panicked" ELSE proc
          /\ arrays' = liveArrays(arrays, params, after)
          /\ objs' = live(objs, cmdline.formal, after, arrays')
    /\ UNCHANGED <<env, args, tree, caller, cmdline, stderr, logOut, params, cd, co>>

\* ParseWithDir up to its discovery loop: argument check, directory
\* traversal, params = []*param{}.  The caller passes a fresh record.
Begin(t) ==
    /\ proc = "running"
    /\ caller[t].active
    /\ ~Busy(t)
    /\ rec' = [rec EXCEPT ![t] = ZeroRecord(caller[t].schema)]
    /\ LET ok == caller[t].arg = "pointer to struct"
           panics == ok /\ walkPanics(caller[t].dir, tree)
           after == [inv EXCEPT ![t] =
                       IF ~ok THEN [IdleInv EXCEPT !.pc = "returned", !.ret = ArgumentError]
                       ELSE IF panics THEN [IdleInv EXCEPT !.pc = "traverse"]
                       ELSE [IdleInv EXCEPT
                               !.pc = IF Len(caller[t].schema) = 0 THEN "parse"
                                      ELSE "discover",
                               !.configFiles = allFilesInDirectory(caller[t].dir, tree),
                               !.i = 1]]
           slice == IF ok /\ ~panics THEN EmptySlice ELSE params
       IN /\ inv' = after
          /\ params' = slice
          /\ proc' = IF panics THEN "panicked" ELSE proc
          /\ arrays' = liveArrays(arrays, slice, after)
          /\ objs' = live(objs, cmdline.formal, after, arrays')
    /\ UNCHANGED <<env, args, tree, caller, cmdline, stderr, logOut, cd, co>>

\* The start of one iteration of the discovery loop: the field is skipped
\* (log.Printf), or its param is built and the append reads params.
Discover(t) ==
    /\ proc = "running"
    /\ inv[t].pc = "discover"
    /\ LET n == inv[t].i
           f == caller[t].schema[n]
       IN IF skipped(f)
          THEN /\ logOut' = Append(logOut, f.name)
               /\ inv' = [inv EXCEPT ![t].i = n + 1,
                                     ![t].pc = IF n = Len(caller[t].schema)
                                               THEN "parse" ELSE "discover"]
               /\ UNCHANGED objs
          ELSE /\ objs' = (Ptr(t, n) :> newParam(t, n, f, caller[t].dir)) @@ objs
               /\ inv' = [inv EXCEPT ![t].seen = params, ![t].pc = "append"]
               /\ UNCHANGED logOut
    /\ UNCHANGED <<env, args, tree, caller, cmdline, stderr, params, arrays, rec, proc,
                   cd, co>>

\* params = append(params, &p): the element and the new slice are stored,
\* built on the slice the iteration read.
AppendParam(t) ==
    /\ proc = "running"
    /\ inv[t].pc = "append"
    /\ LET r == appendSlice(arrays, inv[t].seen, Ptr(t, inv[t].i))
           after == [inv EXCEPT ![t].seen = EmptySlice, ![t].pc = "register"]
       IN /\ params' = r.slice
          /\ inv' = after
          /\ arrays' = liveArrays(r.arrays, r.slice, after)
    /\ UNCHANGED <<env, args, tree, caller, cmdline, stderr, logOut, objs, rec, proc,
                   cd, co>>

\* What the rest of goroutine t's iteration leaves when flag.Var registers
\* the flag: the default applied (p.Set, its error dropped), the flag in
\* the map of flags, the loop at the next field.
registered(t) ==
    LET n == inv[t].i
        f == caller[t].schema[n]
        ptr == Ptr(t, n)
        p == objs[ptr]
        r == IF TagExists(f.tags.default)
             THEN setParam(p.fieldKind, p.isSet, rec[t][n], TagGet(f.tags.default),
                           "command line flag", p.flagKey)
             ELSE [isSet |-> p.isSet, cell |-> rec[t][n], err |-> NoError]
    IN [objs |-> [objs EXCEPT ![ptr].isSet = r.isSet],
        rec |-> [rec EXCEPT ![t][n] = r.cell],
        formal |-> (p.flagKey :> ParamValue(ptr)) @@ cmdline.formal,
        inv |-> [inv EXCEPT ![t].i = n + 1,
                            ![t].pc = IF n = Len(caller[t].schema)
                                      THEN "parse" ELSE "discover"]]

\* The rest of the iteration: the default is applied and the flag
\* registered.  flag.Var on a name that it refuses writes a line ("flag
\* redefined: name", for one) and panics.
Register(t) ==
    /\ proc = "running"
    /\ inv[t].pc = "register"
    /\ objs' = registered(t).objs
    /\ rec' = registered(t).rec
    /\ LET flagKey == objs[Ptr(t, inv[t].i)].flagKey
       IN IF VarPanics(flagKey, cmdline.formal) # ""
          THEN /\ stderr' = Append(stderr, OutLine(VarPanics(flagKey, cmdline.formal),
                                                   flagKey, <<>>, NoError))
               /\ proc' = "panicked"
               /\ UNCHANGED <<cmdline, inv>>
          ELSE /\ cmdline' = [cmdline EXCEPT !.formal = registered(t).formal]
               /\ inv' = registered(t).inv
               /\ UNCHANGED <<proc, stderr>>
    /\ UNCHANGED <<env, args, tree, caller, logOut, params, arrays, cd, co>>

\* flag.Parse(): flag.CommandLine.Parse(os.Args[1:])
FlagParse(t) ==
    /\ proc = "running"
    /\ inv[t].pc = "parse"
    /\ LET mem == [Memory(rec, objs, stderr, args, <<>>) EXCEPT !.actual = cmdline.actual]
           r == parseLoop(cmdline.formal, mem)
       IN /\ rec' = r.mem.rec
          /\ objs' = r.mem.objs
          /\ stderr' = r.mem.out
          /\ cmdline' = [cmdline EXCEPT !.actual = r.mem.actual]
          /\ proc' = ParseEnd(cmdline.errorHandling, r.err)
          /\ inv' = [inv EXCEPT ![t].pc = "resolve", ![t].k = 0]
    /\ UNCHANGED <<env, args, tree, caller, logOut, params, arrays, cd, co>>

\* the resolution body with the two sources swapped: the environment
\* variable wins over the file
resolveOneEnvFirst(p, cell, configFiles, entries, e) ==
    LET listed == p.filename # <<>> /\ p.filename \in DOMAIN configFiles
        fc == IF listed THEN getFileContents(entries, configFiles[p.filename])
              ELSE [contents |-> <<>>, err |-> NotExistError]
        fromFile == setParam(p.fieldKind, p.isSet, cell, fc.contents, "file", p.filename)
        ev == LookupEnv(e, p.envKey)
        fromEnv == setParam(p.fieldKind, p.isSet, cell, ev.v,
                            "environment variable", p.envKey)
    IN IF ev.ok
       THEN [isSet |-> fromEnv.isSet, cell |-> fromEnv.cell, err |-> fromEnv.err]
       ELSE IF listed /\ fc.err = NoError
       THEN [isSet |-> fromFile.isSet, cell |-> fromFile.cell, err |-> fromFile.err]
       ELSE IF listed /\ ~IsNotExist(fc.err)
       THEN [isSet |-> p.isSet, cell |-> cell, err |-> fc.err]
       ELSE [isSet |-> p.isSet, cell |-> cell, err |-> NoError]

\* the resolution body that leaves a binding the flag already set alone:
\* the flag wins over the environment variable
resolveOneFlagKept(p, cell, configFiles, entries, e) ==
    LET listed == p.filename # <<>> /\ p.filename \in DOMAIN configFiles
        fc == IF listed THEN getFileContents(entries, configFiles[p.filename])
              ELSE [contents |-> <<>>, err |-> NotExistError]
        fromFile == setParam(p.fieldKind, p.isSet, cell, fc.contents, "file", p.filename)
        ev == LookupEnv(e, p.envKey)
        fromEnv == setParam(p.fieldKind, p.isSet, cell, ev.v,
                            "environment variable", p.envKey)
    IN IF listed /\ fc.err = NoError
       THEN [isSet |-> fromFile.isSet, cell |-> fromFile.cell, err |-> fromFile.err]
       ELSE IF listed /\ ~IsNotExist(fc.err)
       THEN [isSet |-> p.isSet, cell |-> cell, err |-> fc.err]
       ELSE IF ~ev.ok \/ p.isSet
       THEN [isSet |-> p.isSet, cell |-> cell, err |-> NoError]
       ELSE [isSet |-> fromEnv.isSet, cell |-> fromEnv.cell, err |-> fromEnv.err]

\* The body of the resolution loop for one binding: the file if the
\* directory listing has it and it can be read, else the environment
\* variable if it exists.  fatal: the loop returns err.
resolveOne(p, cell, configFiles, entries, e) ==
    LET listed == p.filename # <<>> /\ p.filename \in DOMAIN configFiles
        fc == IF listed THEN getFileContents(entries, configFiles[p.filename])
              ELSE [contents |-> <<>>, err |-> NotExistError]
        fromFile == setParam(p.fieldKind, p.isSet, cell, fc.contents, "file", p.filename)
        ev == LookupEnv(e, p.envKey)
        fromEnv == setParam(p.fieldKind, p.isSet, cell, ev.v,
                            "environment variable", p.envKey)
    IN IF listed /\ fc.err = NoError
       THEN [isSet |-> fromFile.isSet, cell |-> fromFile.cell, err |-> fromFile.err]
       ELSE IF listed /\ ~IsNotExist(fc.err)
       THEN [isSet |-> p.isSet, cell |-> cell, err |-> fc.err]
       ELSE IF ~ev.ok
       THEN [isSet |-> p.isSet, cell |-> cell, err |-> NoError]
       ELSE [isSet |-> fromEnv.isSet, cell |-> fromEnv.cell, err |-> fromEnv.err]

\* One iteration of the resolution loop.  The range reads params once, when
\* the loop starts, and each iteration reads its element from the backing
\* array.
Resolve(t) ==
    /\ proc = "running"
    /\ inv[t].pc = "resolve"
    /\ LET s == IF inv[t].k = 0 THEN params ELSE inv[t].hdr
           k == inv[t].k + 1
       IN IF s.len = 0
          THEN /\ inv' = [inv EXCEPT ![t].hdr = s, ![t].pc = "check"]
               /\ UNCHANGED <<objs, rec>>
          ELSE LET ptr == arrays[s.arr][k]
                   p == objs[ptr]
                   r == resolveOne(p, rec[p.owner][p.field], inv[t].configFiles, tree, env)
               IN /\ objs' = [objs EXCEPT ![ptr].isSet = r.isSet]
                  /\ rec' = [rec EXCEPT ![p.owner][p.field] = r.cell]
                  /\ inv' = [inv EXCEPT
                       ![t].hdr = s,
                       ![t].list = Append(@, ptr),
                       ![t].k = k,
                       ![t].ret = r.err,
                       ![t].pc = IF r.err # NoError THEN "returned"
                                 ELSE IF k = s.len THEN "check"
                                 ELSE "resolve"]
    /\ UNCHANGED <<env, args, tree, caller, cmdline, stderr, logOut, params, arrays,
                   proc, cd, co>>

\* "Mandatory flag -%s (or environment variable %s) does not exist."
MandatoryLine(p) == OutLine("mandatory", p.flagKey, p.envKey, NoError)

\* a mandatory loop that leaves at the first missing binding
MandatoryCheckFirst(t) ==
    /\ proc = "running"
    /\ inv[t].pc = "check"
    /\ LET s == IF inv[t].j = 0 THEN params ELSE inv[t].scan
           j == inv[t].j + 1
       IN IF s.len = 0
          THEN /\ inv' = [inv EXCEPT ![t].scan = s, ![t].pc = "drop"]
               /\ UNCHANGED stderr
          ELSE LET p == objs[arrays[s.arr][j]]
                   isMissing == p.mandatory /\ ~p.isSet
               IN /\ stderr' = IF isMissing THEN Append(stderr, MandatoryLine(p))
                               ELSE stderr
                  /\ inv' = [inv EXCEPT
                       ![t].scan = s,
                       ![t].j = j,
                       ![t].missingCount = IF isMissing THEN @ + 1 ELSE @,
                       ![t].pc = IF j = s.len \/ isMissing THEN "drop" ELSE "check"]
    /\ UNCHANGED <<env, args, tree, caller, cmdline, logOut, params, arrays, objs, rec,
                   proc, cd, co>>

\* One iteration of the mandatory loop: a binding that is mandatory and not
\* set is counted and reported.  The range reads params when the loop starts.
MandatoryCheck(t) ==
    /\ proc = "running"
    /\ inv[t].pc = "check"
    /\ LET s == IF inv[t].j = 0 THEN params ELSE inv[t].scan
           j == inv[t].j + 1
       IN IF s.len = 0
          THEN /\ inv' = [inv EXCEPT ![t].scan = s, ![t].pc = "drop"]
               /\ UNCHANGED stderr
          ELSE LET p == objs[arrays[s.arr][j]]
                   isMissing == p.mandatory /\ ~p.isSet
               IN /\ stderr' = IF isMissing THEN Append(stderr, MandatoryLine(p))
                               ELSE stderr
                  /\ inv' = [inv EXCEPT
                       ![t].scan = s,
                       ![t].j = j,
                       ![t].missingCount = IF isMissing THEN @ + 1 ELSE @,
                       ![t].pc = IF j = s.len THEN "drop" ELSE "check"]
    /\ UNCHANGED <<env, args, tree, caller, cmdline, logOut, params, arrays, objs, rec,
                   proc, cd, co>>

\* params = []*param{} after the mandatory loop, and the nil return when
\* nothing is missing
DropParams(t) ==
    /\ proc = "running"
    /\ inv[t].pc = "drop"
    /\ LET after == [inv EXCEPT
                       ![t].pc = IF inv[t].missingCount > 0 THEN "usage" ELSE "returned",
                       ![t].ret = NoError]
       IN /\ inv' = after
          /\ params' = EmptySlice
          /\ arrays' = liveArrays(arrays, EmptySlice, after)
    /\ UNCHANGED <<env, args, tree, caller, cmdline, stderr, logOut, objs, rec, proc,
                   cd, co>>

\* flag.Usage() and the "%d mandatory parameters missing" error
Usage(t) ==
    /\ proc = "running"
    /\ inv[t].pc = "usage"
    /\ stderr' = Append(stderr, UsageLine)
    /\ inv' = [inv EXCEPT ![t].pc = "returned",
                          ![t].ret = MissingError(inv[t].missingCount)]
    /\ UNCHANGED <<env, args, tree, caller, cmdline, logOut, params, arrays, objs, rec,
                   proc, cd, co>>

\* The caller starts over, as the tests do between two calls:
\* flag.CommandLine = flag.NewFlagSet(os.Args[0], flag.ContinueOnError),
\* with a new output buffer; the result of the last call is dropped.  What
\* log.Printf has written stays written.
ResetCommandLine ==
    /\ proc = "running"
    /\ Len(logOut) < MaxLog
    /\ \A t \in Threads : inv[t].pc = "returned"  \/ ~caller[t].active
    /\ cmdline' = NewFlagSet("ContinueOnError")
    /\ stderr' = << >>
    /\ inv' = [t \in Threads |-> IdleInv]
    /\ arrays' = liveArrays(arrays, params, [t \in Threads |-> IdleInv])
    /\ UNCHANGED <<env, args, tree, caller, logOut, params, objs, rec, proc, cd, co>>

(***************************************************************************)
(* The inputs of the binder specification.                                 *)
(***************************************************************************)
sPORT == <<"P","O","R","T">>
sASYNC == <<"A","S","Y","N","C">>
sport == <<"p","o","r","t">>
sasync == <<"a","s","y","n","c">>
sAbc == <<"a","b","c">>
sDef == <<"d","e","f">>
s7000 == <<"7","0","0","0">>
sNo == <<"N","o">>
sDir == <<"/","c">>

\* "-name=value" and "-name"
FlagEq(name, value) == <<"-">> \o name \o <<"=">> \o value
FlagArg(name) == <<"-">> \o name

\* the arguments an argv is made of: flags of the three kinds with values
\* that coerce and values that do not, a flag without its value, a plain
\* argument, a flag no field registers
Tokens ==
    { FlagEq(sHost, sAbc), FlagEq(sport, <<"8","0","0","0">>), FlagEq(sport, sText), FlagArg(sport),
      <<"7">>, FlagArg(sasync), FlagEq(sasync, sNo), FlagArg(<<"x">>) }

ArgvAll == UNION {[1..n -> Tokens] : n \in 0..MaxArgs}

\* TestBasic's command lines
ArgvFew ==
    { << >>,
      <<FlagEq(sHost, sAbc), FlagEq(sport, <<"8","0","0","0">>), FlagArg(sasync)>>,
      <<FlagEq(sHost, sAbc), FlagEq(sport, sText), FlagArg(sasync)>>,
      <<FlagArg(sasync)>> }

Opt(key, vals) == {<< >>} \cup {key :> v : v \in vals}

EnvAll ==
    { a @@ b @@ c : a \in Opt(sHOST, {sDef}),
                    b \in Opt(sPORT, {s7000, sText}),
                    c \in Opt(sASYNC, {<<"0">>, sTrue, sNo, <<>>}) }

EnvFew == { << >>, (sHOST :> sDef) @@ (sPORT :> s7000) @@ (sASYNC :> <<"0">>) }

Root == Entry(<<sDir>>, "dir", <<>>, "ok")
File(name, contents) == Entry(<<sDir, name>>, "regular", contents, "ok")

\* no directory is named; the named directory does not exist
NoDirCase == [dir |-> << >>, tree |-> << >>]
MissingDirCase == [dir |-> <<"/","n","x">>, tree |-> << >>]

Trees ==
    { <<Root>>,
      <<Root, File(sasync, sNo), File(<<"h","o","s","t","n","a","m","e">>, <<"a","d","m","i","n">>), File(sport, <<"5">>)>>,
      <<Root, File(sParam, sAbc), File(sport, <<"5", "\n">>)>>,
      <<Root, File(sasync, sTrue), Entry(<<sDir, sport>>, "regular", <<"5">>, "unreadable")>>,
      <<Root, File(sasync, <<"0">>), Entry(<<sDir, sport>>, "regular", <<"5">>, "vanished")>>,
      <<Root, Entry(<<sDir, <<"1">>>>, "dir", <<>>, "ok"),
              Entry(<<sDir, <<"1">>, sport>>, "regular", <<"5">>, "ok"),
              Entry(<<sDir, <<"2">>>>, "dir", <<>>, "ok"),
              Entry(<<sDir, <<"2">>, sport>>, "regular", <<"6">>, "ok"),
              Entry(<<sDir, sasync>>, "symlink", <<>>, "ok")>> }

DirCases ==
    {NoDirCase, MissingDirCase} \cup {[dir |-> sDir, tree |-> tr] : tr \in Trees}

\* what a thread passes to ParseWithDir
Caller(schema, dir, arg) ==
    [active |-> TRUE, schema |-> schema, dir |-> dir, arg |-> arg, entry |-> "ParseWithDir"]
NoCaller == [active |-> FALSE, schema |-> << >>, dir |-> << >>, arg |-> "", entry |-> ""]

\* Parse(ptrtostruct): ParseWithDir(ptrtostruct, "")
ParseCaller(schema, arg) == [Caller(schema, << >>, arg) EXCEPT !.entry = "Parse"]

IdleCd == [envKey |-> <<>>, flagKey |-> <<>>, defaultval |-> <<>>, done |-> FALSE, result |-> <<>>]
IdleCo == [fieldKind |-> "", isSet |-> FALSE, cell |-> ZeroCell, val |-> <<>>,
           configType |-> "", keyName |-> <<>>, done |-> FALSE,
           out |-> [isSet |-> FALSE, cell |-> ZeroCell, err |-> NoError]]

\* the state every specification starts from, the inputs left open
Fresh ==
    /\ stderr = << >>
    /\ logOut = << >>
    /\ params = EmptySlice
    /\ arrays = << >>
    /\ objs = << >>
    /\ rec = [t \in Threads |-> << >>]
    /\ inv = [t \in Threads |-> IdleInv]
    /\ proc = "running"

\* One thread calls Parse, with files on the disk that no directory argument
\* names, or ParseWithDir.  For ParseWithDir either the command line ranges over every
\* argv and the other sources over a few cases, or the environment and the
\* directory range over every case and the command line over a few.
Init ==
    /\ Fresh
    /\ cd = IdleCd
    /\ co = IdleCo
    /\ cmdline \in {NewFlagSet("ExitOnError"), NewFlagSet("ContinueOnError")}
    /\ \E schema \in Schemas, dc \in DirCases,
          arg \in {"pointer to struct", "struct", "pointer to int"},
          entry \in {"Parse", "ParseWithDir"} :
         /\ caller = [t \in Threads |->
                        IF t # 1 THEN NoCaller
                        ELSE IF entry = "Parse" THEN ParseCaller(schema, arg)
                        ELSE Caller(schema, dc.dir, arg)]
         /\ tree = dc.tree
         /\ \/ /\ args \in ArgvFew
               /\ env \in EnvFew
               /\ arg = "pointer to struct"
               /\ entry = "Parse"
            \/ /\ entry = "ParseWithDir"
               /\ \/ /\ args \in ArgvAll
                     /\ env \in EnvFew
                     /\ dc = NoDirCase
                     /\ arg = "pointer to struct"
                  \/ /\ args \in ArgvFew
                     /\ env \in EnvAll
                     /\ arg = "pointer to struct"
                  \/ /\ args = << >>
                     /\ env = << >>
                     /\ dc = NoDirCase
                     /\ arg # "pointer to struct"

Next ==
    \/ \E t \in Threads : Begin(t)
    \/ \E t \in Threads : Discover(t)
    \/ \E t \in Threads : AppendParam(t)
    \/ \E t \in Threads : Register(t)
    \/ \E t \in Threads : FlagParse(t)
    \/ \E t \in Threads : Resolve(t)
    \/ \E t \in Threads : MandatoryCheck(t)
    \/ \E t \in Threads : DropParams(t)
    \/ \E t \in Threads : Usage(t)
    \/ ResetCommandLine

Spec == Init /\ [][Next]_vars

(***************************************************************************)
(* Two goroutines call Parse at the same time, each with its own struct.    *)
(* A step is one access of one goroutine to the memory they share (params, *)
(* its backing arrays, the params, the map of flags, the output) with the  *)
(* statements around it that touch nothing shared.  os.Args is empty, so   *)
(* that flag.Parse reads no flag and sets none.                            *)
(***************************************************************************)
sNAME == <<"N","A","M","E">>
sAGE == <<"A","G","E">>

\* the first two fields of TestMandatory's User
User ==
    << Field(<<"N","a","m","e">>, "String", [NoTags EXCEPT !.mandatory = Tag(sTrue)]),
       Field(<<"A","g","e">>, "Int", [NoTags EXCEPT !.mandatory = Tag(sTrue)]) >>

EnvConc ==
    { << >>,
      (sNAME :> sAbc) @@ (sAGE :> <<"7">>),
      (sHOST :> sDef) @@ (sPORT :> s7000) @@ (sASYNC :> sTrue),
      (sHOST :> sDef) @@ (sPORT :> s7000) @@ (sASYNC :> sTrue)
         @@ (sNAME :> sAbc) @@ (sAGE :> <<"7">>),
      (sPORT :> sText) @@ (sNAME :> sAbc) @@ (sAGE :> sText) }

InitConc ==
    /\ Fresh
    /\ cd = IdleCd
    /\ co = IdleCo
    /\ cmdline = NewFlagSet("ContinueOnError")
    /\ tree = << >>
    /\ args = << >>
    /\ env \in EnvConc
    /\ caller = [t \in Threads |-> IF t = 1 THEN ParseCaller(Mandatory, "pointer to struct")
                                   ELSE ParseCaller(User, "pointer to struct")]

\* What the unsynchronised accesses of the next steps of goroutines t and u
\* can do besides happening one after the other.  A read or write of params
\* next to a write of params, or a store to a string field next to a load
\* of it (p.String() in flag.Var) or another store, can mix the words of the
\* two values ("corrupted": the memory is no longer what any
\* statement wrote).  flag.Var's write of the map of flags next to another
\* flag.Var or to flag.Usage's range over it can end in the runtime's
\* "fatal error: concurrent map writes" ("fatal").  Two first calls of
\* flag.Var, each finding the map of flags nil, each make a map
\* (f.formal = make(map[string]*Flag)): the flag stored in the map that the
\* other call's store replaces is gone and the process runs on ("lost").
\* flag.Usage's sortFlags sizes a slice by the length of the map of flags
\* and then ranges over the map: a flag that flag.Var puts in the map in
\* between makes the range run past the slice and the goroutine panic
\* ("panicked", for goroutine t in flag.Usage and u in flag.Var).
RaceOutcomes(t, u) ==
    LET readsParams(v) ==
            \/ inv[v].pc = "discover" /\ ~skipped(caller[v].schema[inv[v].i])
            \/ inv[v].pc = "resolve" /\ inv[v].k = 0
            \/ inv[v].pc = "check" /\ inv[v].j = 0
        writesParams(v) ==
            \/ inv[v].pc \in {"append", "drop"}
            \/ /\ inv[v].pc = "idle"
               /\ caller[v].active
               /\ caller[v].arg = "pointer to struct"
               /\ ~walkPanics(caller[v].dir, tree)
        writesFormal(v) == inv[v].pc = "register"
        readsFormal(v) == inv[v].pc = "usage"
        writesString(v) ==
            IF inv[v].pc = "register"
            THEN LET f == caller[v].schema[inv[v].i]
                 IN IF f.kind = "String" /\ TagExists(f.tags.default)
                    THEN {Ptr(v, inv[v].i)} ELSE {}
            ELSE IF inv[v].pc = "resolve"
            THEN LET s == IF inv[v].k = 0 THEN params ELSE inv[v].hdr
                 IN IF s.len = 0 THEN {}
                    ELSE LET ptr == arrays[s.arr][inv[v].k + 1]
                             p == objs[ptr]
                             r == resolveOne([p EXCEPT !.isSet = FALSE],
                                             rec[p.owner][p.field],
                                             inv[v].configFiles, tree, env)
                         IN IF p.fieldKind = "String" /\ r.isSet THEN {ptr} ELSE {}
            ELSE {}
        readsString(v) ==
            IF /\ inv[v].pc = "register"
               /\ caller[v].schema[inv[v].i].kind = "String"
               /\ VarPanics(objs[Ptr(v, inv[v].i)].flagKey, << >>) = ""
            THEN {Ptr(v, inv[v].i)} ELSE {}
        words == \/ writesParams(t) /\ (readsParams(u) \/ writesParams(u))
                 \/ readsParams(t) /\ writesParams(u)
                 \/ writesString(t) \cap (readsString(u) \cup writesString(u)) # {}
                 \/ readsString(t) \cap writesString(u) # {}
        map == \/ writesFormal(t) /\ (readsFormal(u) \/ writesFormal(u))
               \/ readsFormal(t) /\ writesFormal(u)
        makesFormal(v) ==
            /\ inv[v].pc = "register"
            /\ DOMAIN cmdline.formal = {}
            /\ VarPanics(objs[Ptr(v, inv[v].i)].flagKey, << >>) = ""
        putsFormal(v) ==
            /\ inv[v].pc = "register"
            /\ VarPanics(objs[Ptr(v, inv[v].i)].flagKey, cmdline.formal) = ""
    IN (IF words THEN {"corrupted"} ELSE {})
         \cup (IF map THEN {"fatal"} ELSE {})
         \cup (IF makesFormal(t) /\ makesFormal(u) THEN {"lost"} ELSE {})
         \cup (IF readsFormal(t) /\ putsFormal(u) THEN {"panicked"} ELSE {})

\* A data race between the next steps of two goroutines.  The process ends
\* as it is ("corrupted", "fatal").  Or goroutine t's flag.Var stores its
\* flag in a map of flags that the other goroutine's flag.Var replaces: the
\* rest of t's iteration happens and the set of flags is as before
\* ("lost").  Or goroutine t's flag.Usage has written "Usage of ...:" and
\* panics in sortFlags over the flag that goroutine u's flag.Var has
\* registered ("panicked").
DataRace(t) ==
    /\ proc = "running"
    /\ \E u \in Threads \ {t} : \E o \in RaceOutcomes(t, u) :
         IF o = "lost"
         THEN /\ objs' = registered(t).objs
              /\ rec' = registered(t).rec
              /\ inv' = registered(t).inv
              /\ UNCHANGED <<proc, cmdline, stderr>>
         ELSE IF o = "panicked"
         THEN /\ objs' = registered(u).objs
              /\ rec' = registered(u).rec
              /\ inv' = registered(u).inv
              /\ cmdline' = [cmdline EXCEPT !.formal = registered(u).formal]
              /\ stderr' = Append(stderr, OutLine("Usage of", <<>>, <<>>, NoError))
              /\ proc' = "panicked"
         ELSE /\ proc' = o
              /\ UNCHANGED <<objs, rec, inv, cmdline, stderr>>
    /\ UNCHANGED <<env, args, tree, caller, logOut, params, arrays, cd, co>>

\* each goroutine calls Parse once between two replacements of
\* flag.CommandLine
NextConc ==
    \/ \E t \in Threads : inv[t].pc = "idle" /\ Begin(t)
    \/ \E t \in Threads : Discover(t)
    \/ \E t \in Threads : AppendParam(t)
    \/ \E t \in Threads : Register(t)
    \/ \E t \in Threads : FlagParse(t)
    \/ \E t \in Threads : Resolve(t)
    \/ \E t \in Threads : MandatoryCheck(t)
    \/ \E t \in Threads : DropParams(t)
    \/ \E t \in Threads : Usage(t)
    \/ \E t \in Threads : DataRace(t)
    \/ ResetCommandLine

SpecConc == InitConc /\ [][NextConc]_vars

(***************************************************************************)
(* RetrieveConfigDirectory, under its own specification.                   *)
(***************************************************************************)
sCONFIGDIR == <<"C","O","N","F","I","G","D","I","R">>
sconfigdir == <<"c","o","n","f","i","g","d","i","r">>
sFlagDir == <<"/","f">>

\* RetrieveConfigDirectory after flag.Parse() with the flag registered: r is
\* what the parse left.  The process ends when the parse failed under
\* ExitOnError or PanicOnError, with the flags the parse has accepted
\* recorded in the set; else the value of the flag is returned and
\* flag.CommandLine replaced.
parsedDirectory(cmd, formal, r) ==
    IF ParseEnd(cmd.errorHandling, r.err) # "running"
    THEN [result |-> <<>>, cmdline |-> [cmd EXCEPT !.formal = formal, !.actual = r.mem.actual],
          mem |-> r.mem, proc |-> ParseEnd(cmd.errorHandling, r.err)]
    ELSE [result |-> r.mem.strvar, cmdline |-> NewFlagSet("ContinueOnError"),
          mem |-> r.mem, proc |-> "running"]

\* RetrieveConfigDirectory(envKey, flagKey, defaultval): the result, and what
\* the call leaves of the registry, the output and the process.  flag.StringVar
\* on a name that FlagSet.Var refuses writes a line and panics.
retrieveConfigDirectory(envKey, flagKey, defaultval, e, argv, cmd, mem) ==
    LET val == Getenv(e, envKey)
        same == [result |-> defaultval, cmdline |-> cmd, mem |-> mem, proc |-> "running"]
    IN IF Len(envKey) > 0
       THEN IF Len(val) = 0 THEN same ELSE [same EXCEPT !.result = val]
       ELSE IF Len(flagKey) > 0
       THEN IF VarPanics(flagKey, cmd.formal) # ""
            THEN [result |-> defaultval, cmdline |-> cmd, proc |-> "panicked",
                  mem |-> [mem EXCEPT
                             !.out = Append(mem.out, OutLine(VarPanics(flagKey, cmd.formal),
                                                             flagKey, <<>>, NoError))]]
            ELSE parsedDirectory(cmd, (flagKey :> StringValue) @@ cmd.formal,
                                 parseLoop((flagKey :> StringValue) @@ cmd.formal,
                                           [mem EXCEPT !.strvar = defaultval,
                                                       !.args = argv,
                                                       !.actual = cmd.actual]))
       ELSE same

RetrieveConfigDirectory ==
    /\ proc = "running"
    /\ ~cd.done
    /\ LET r == retrieveConfigDirectory(cd.envKey, cd.flagKey, cd.defaultval, env, args,
                                        cmdline, Memory(rec, objs, stderr, args, <<>>))
       IN /\ cd' = [cd EXCEPT !.done = TRUE, !.result = r.result]
          /\ cmdline' = r.cmdline
          /\ stderr' = r.mem.out
          /\ rec' = r.mem.rec
          /\ objs' = r.mem.objs
          /\ proc' = r.proc
    /\ UNCHANGED <<env, args, tree, caller, logOut, params, arrays, inv, co>>

DirTokens ==
    { FlagEq(sconfigdir, sFlagDir), FlagArg(sconfigdir), sFlagDir,
      FlagEq(sconfigdir, <<>>), FlagEq(sHost, sAbc), <<"-", "-">> }

DirArgv == UNION {[1..n -> DirTokens] : n \in 0..MaxArgs}

InitDir ==
    /\ Fresh
    /\ co = IdleCo
    /\ tree = << >>
    /\ caller = [t \in Threads |-> NoCaller]
    /\ cmdline \in { NewFlagSet("ExitOnError"), NewFlagSet("ContinueOnError"),
                     NewFlagSet("PanicOnError"),
                     [NewFlagSet("ExitOnError") EXCEPT
                        !.formal = (sconfigdir :> StringValue)] }
    /\ env \in Opt(sCONFIGDIR, {<<>>, <<"/","e">>})
    /\ args \in DirArgv
    /\ \E envKey \in {<<>>, sCONFIGDIR},
          flagKey \in {<<>>, sconfigdir, <<"-","c">>, <<"c","=","d">>} :
         cd = [IdleCd EXCEPT !.envKey = envKey, !.flagKey = flagKey,
                             !.defaultval = <<"/","c","o","n","f","i","g">>]

NextDir == RetrieveConfigDirectory

SpecDir == InitDir /\ [][NextDir]_vars

(***************************************************************************)
(* setParam on its own, under the coercion specification.                  *)
(***************************************************************************)
Alphabet == {"0", "1", "-", "f", "F", "n", "N", "o", "O", "t", " "}

\* every string over Alphabet up to MaxLen, and longer words around the
\* ones the coercions single out
CoerceInputs ==
    UNION {[1..n -> Alphabet] : n \in 0..MaxLen}
    \cup { <<"f","a","l","s","e">>, <<"F","A","L","S","E">>, <<"F","a","l","s","E">>,
           <<"f","a","l","s","e"," ">>, <<"f","a","l","s">>, <<"t","r","u","e">>,
           <<"o","f","f">>, <<"n","o","n","e">>, <<"y","e","s">>,
           <<"-","1","2","0">>, <<"+","7","0","5">>, <<"1","e","3">>, <<"0","x","1","0">>,
           <<"8","0","8","0">>, <<"5","\n">>, <<"0","0","7">>,
           [MaxIntDigits EXCEPT ![19] = "8"], <<"-">> \o MaxIntDigits \o <<"0">>,
           <<"0","0","0","0","0","0","0","0","0","0","0","0","0","0","0","0","0","0","0","0","7">> }

\* what a field of the kind holds before the call
PriorCells(kind) ==
    {ZeroCell} \cup
    (IF kind = "String" THEN {StrCell(<<"o","l","d">>)}
     ELSE IF kind = "Int" THEN {IntCell(42)}
     ELSE IF kind = "Bool" THEN {BoolCell(TRUE)}
     ELSE {})

InitCoerce ==
    /\ Fresh
    /\ cd = IdleCd
    /\ tree = << >>
    /\ env = << >>
    /\ args = << >>
    /\ caller = [t \in Threads |-> NoCaller]
    /\ cmdline = NewFlagSet("ExitOnError")
    /\ \E kind \in Kinds \cup {"Float"}, val \in CoerceInputs,
          configType \in {"file", "environment variable", "command line flag"} :
         \E cell \in PriorCells(kind) :
           co = [IdleCo EXCEPT !.fieldKind = kind, !.val = val, !.cell = cell,
                               !.configType = configType, !.keyName = <<"k">>]

\* p.setParam(val, configType, keyName)
SetParamCall ==
    /\ ~co.done
    /\ co' = [co EXCEPT !.done = TRUE,
                        !.out = setParam(co.fieldKind, co.isSet, co.cell, co.val,
                                         co.configType, co.keyName)]
    /\ UNCHANGED <<env, args, tree, caller, cmdline, stderr, logOut, params, arrays, objs,
                   rec, inv, proc, cd>>

NextCoerce == SetParamCall

SpecCoerce == InitCoerce /\ [][NextCoerce]_vars

(***************************************************************************)
(* Vocabulary of the claims.                                               *)
(***************************************************************************)
\* thread t's call of ParseWithDir has returned
Returned(t) ==
    proc = "running" /\ inv[t].pc = "returned" /\ caller[t].arg = "pointer to struct"

\* ... with a nil error
Succeeded(t) == Returned(t) /\ inv[t].ret = NoError

\* the fields of thread t's record that get a binding
Bound(t) == {n \in 1..Len(caller[t].schema) : ~skipped(caller[t].schema[n])}

KindOf(t, n) == caller[t].schema[n].kind
FileKey(t, n) == fileKeyOf(caller[t].schema[n], caller[t].dir)
EnvKey(t, n) == envKeyOf(caller[t].schema[n])
FlagKey(t, n) == flagKeyOf(caller[t].schema[n])
DefaultTag(t, n) == caller[t].schema[n].tags.default

\* the raw value coerces to the kind, and the storage it coerces to
Coerces(kind, raw) == setParam(kind, FALSE, ZeroCell, raw, "", <<>>).err = NoError
Coerced(kind, raw) == setParam(kind, FALSE, ZeroCell, raw, "", <<>>).cell

\* the regular files under the directory whose base name is the field's fileKey
FileEntries(t, n) ==
    IF caller[t].dir = <<>> THEN {}
    ELSE {e \in {tree[j] : j \in 1..Len(tree)} :
            e.type = "regular" /\ BaseName(e.path) = FileKey(t, n)}

\* a config file supplies a coercible value: each file of that name can be
\* read and its contents coerce
FileSupplies(t, n) ==
    /\ FileEntries(t, n) # {}
    /\ \A e \in FileEntries(t, n) : e.state = "ok" /\ Coerces(KindOf(t, n), e.contents)

\* the environment variable supplies a coercible value
EnvSupplies(t, n) ==
    EnvKey(t, n) \in DOMAIN env /\ Coerces(KindOf(t, n), env[EnvKey(t, n)])

\* the flag registry accepted a value for the field's flag
FlagSupplies(t, n) == FlagKey(t, n) \in DOMAIN cmdline.actual

\* an argument that names the flag: "-key", "--key", "-key=v", "--key=v"
Names(arg, key) ==
    \E m \in {1, 2} :
       /\ Len(arg) >= m + Len(key)
       /\ \A j \in 1..m : arg[j] = "-"
       /\ SubSeq(arg, m + 1, m + Len(key)) = key
       /\ (Len(arg) = m + Len(key) \/ arg[m + Len(key) + 1] = "=")

\* the flag appears on argv
OnArgv(key) == \E j \in 1..Len(args) : Names(args[j], key)

(***************************************************************************)
(* C1                                                                      *)
(***************************************************************************)
\* C1: after a successful ParseWithDir, a field for which a config file, the
\* environment variable and the flag all supply a coercible value holds the
\* coerced contents of the file, whatever the other two values are.
C1_FileWins ==
    \A t \in Threads : Succeeded(t) =>
      \A n \in Bound(t) :
        (FileSupplies(t, n) /\ EnvSupplies(t, n) /\ FlagSupplies(t, n))
          => rec[t][n] \in {Coerced(KindOf(t, n), e.contents) : e \in FileEntries(t, n)}

\* C1 happens: a field bound from its file although the environment and the
\* flag supplied other values
C1_Witness ==
    \E t \in Threads : Succeeded(t) /\
      \E n \in Bound(t) :
        /\ FileSupplies(t, n) /\ EnvSupplies(t, n) /\ FlagSupplies(t, n)
        /\ rec[t][n] # Coerced(KindOf(t, n), env[EnvKey(t, n)])
        /\ rec[t][n] # Coerced(KindOf(t, n), cmdline.actual[FlagKey(t, n)])
        /\ \E e \in FileEntries(t, n) : rec[t][n] = Coerced(KindOf(t, n), e.contents)

(***************************************************************************)
(* C2                                                                      *)
(***************************************************************************)
\* C2: after a successful ParseWithDir, a field for which no config file is
\* found while the environment variable and the flag both supply a coercible
\* value holds the coerced environment value.
C2_EnvWins ==
    \A t \in Threads : Succeeded(t) =>
      \A n \in Bound(t) :
        (FileEntries(t, n) = {} /\ EnvSupplies(t, n) /\ FlagSupplies(t, n))
          => rec[t][n] = Coerced(KindOf(t, n), env[EnvKey(t, n)])

\* C2 happens: a Boolean flag given on argv is overridden to false by the
\* environment value
C2_Witness ==
    \E t \in Threads : Succeeded(t) /\
      \E n \in Bound(t) :
        /\ KindOf(t, n) = "Bool"
        /\ FileEntries(t, n) = {} /\ EnvSupplies(t, n) /\ FlagSupplies(t, n)
        /\ Coerced("Bool", cmdline.actual[FlagKey(t, n)]) = BoolCell(TRUE)
        /\ rec[t][n] = BoolCell(FALSE)

(***************************************************************************)
(* C3                                                                      *)
(***************************************************************************)
\* the value an argument naming the flag gives it: what follows "=", or
\* "true" for a bare flag
ArgValue(arg, key) ==
    LET m == IF Len(arg) >= 2 /\ arg[2] = "-" THEN 2 ELSE 1
    IN IF Len(arg) = m + Len(key) THEN <<"t","r","u","e">>
       ELSE SubSeq(arg, m + Len(key) + 2, Len(arg))

\* every argument is a flag of a bound field, written "-key=value" or, for a
\* Boolean field, "-key"
PlainFlagsOnly(t) ==
    \A j \in 1..Len(args) : \E n \in Bound(t) :
       /\ Names(args[j], FlagKey(t, n))
       /\ (KindOf(t, n) = "Bool" \/ Len(args[j]) > 1 + Len(FlagKey(t, n)))

\* the last argument that names the flag
LastNaming(key) ==
    CHOOSE j \in 1..Len(args) :
       Names(args[j], key) /\ \A h \in (j + 1)..Len(args) : ~Names(args[h], key)

\* the field's declared default, coerced; the zero value without one
DefaultOrZero(t, n) ==
    IF DefaultTag(t, n).ok /\ Coerces(KindOf(t, n), DefaultTag(t, n).v)
    THEN Coerced(KindOf(t, n), DefaultTag(t, n).v)
    ELSE ZeroCell

\* C3: with no config file and no environment variable, after a successful
\* bind of a zero-initialised record the field holds the coerced value of
\* the flag if the flag was given on argv, otherwise the coerced default,
\* otherwise the zero value.  Stated for command lines made of flags of the
\* bound fields only.
C3_FlagThenDefaultThenZero ==
    \A t \in Threads : (Succeeded(t) /\ PlainFlagsOnly(t)) =>
      \A n \in Bound(t) :
        (FileEntries(t, n) = {} /\ EnvKey(t, n) \notin DOMAIN env) =>
          IF OnArgv(FlagKey(t, n))
          THEN LET raw == ArgValue(args[LastNaming(FlagKey(t, n))], FlagKey(t, n))
               IN Coerces(KindOf(t, n), raw) => rec[t][n] = Coerced(KindOf(t, n), raw)
          ELSE rec[t][n] = DefaultOrZero(t, n)

(***************************************************************************)
(* C4                                                                      *)
(***************************************************************************)
\* the call returned from the mandatory check, not from the resolution loop
\* or the argument check
PassCompleted(t) ==
    Returned(t) /\ inv[t].ret.msg \in {"nil", "mandatory parameters missing"}

\* field n's binding is mandatory and not set
Unset(t, n) ==
    /\ n \in Bound(t)
    /\ TagExists(caller[t].schema[n].tags.mandatory)
    /\ ~objs[Ptr(t, n)].isSet

\* the mandatory fields left unset, in discovery order
UnsetFields(t) ==
    LET IsUnset(n) == Unset(t, n)
    IN SelectSeq([n \in 1..Len(caller[t].schema) |-> n], IsUnset)

\* the "Mandatory flag ... does not exist" lines written so far
MandatoryLines ==
    LET IsMandatory(l) == l.kind = "mandatory"
    IN SelectSeq(stderr, IsMandatory)

\* C4: when the resolution pass completes and N bindings are mandatory and
\* not set, the call writes exactly one "Mandatory flag" line for each of
\* them and for no other binding; with N >= 1 the usage follows and the
\* error reports N; with N = 0 the call succeeds.
C4_MandatoryCheck ==
    \A t \in Threads : PassCompleted(t) =>
      LET u == UnsetFields(t)
      IN /\ MandatoryLines =
              [j \in 1..Len(u) |->
                 OutLine("mandatory", FlagKey(t, u[j]), EnvKey(t, u[j]), NoError)]
         /\ Len(u) >= 1 => /\ inv[t].ret = MissingError(Len(u))
                           /\ stderr[Len(stderr)] = UsageLine
                           /\ stderr[Len(stderr) - 1].kind = "mandatory"
         /\ Len(u) = 0 => inv[t].ret = NoError

\* C4 happens: two mandatory fields are missing and one is set; both are
\* reported
C4_Witness ==
    \E t \in Threads :
      /\ PassCompleted(t)
      /\ Len(UnsetFields(t)) = 2
      /\ Len(MandatoryLines) = 2
      /\ inv[t].ret.count = 2
      /\ \E n \in Bound(t) :
           TagExists(caller[t].schema[n].tags.mandatory) /\ objs[Ptr(t, n)].isSet

(***************************************************************************)
(* C5                                                                      *)
(***************************************************************************)
\* C5: for a field with the mandatory tag (whatever the tag's value), if the
\* environment variable and the command-line flag do not exist, the call
\* returns with an error (having printed an error message and the usage).
C5_MandatoryMissing ==
    \A t \in Threads : Returned(t) =>
      \A n \in Bound(t) :
        ( /\ TagExists(caller[t].schema[n].tags.mandatory)
          /\ EnvKey(t, n) \notin DOMAIN env
          /\ ~OnArgv(FlagKey(t, n)) )
        => inv[t].ret # NoError

(***************************************************************************)
(* C6                                                                      *)
(***************************************************************************)
\* the words the claim lists as false
C6_Words == {<<"0">>, <<"f">>, <<"f","a","l","s","e">>, <<"n">>, <<"n","o">>}

\* a and b are the same string when letter case is ignored
SameIgnoringCase(a, b) ==
    /\ Len(a) = Len(b)
    /\ \A j \in 1..Len(a) : ToUpperChar(a[j]) = ToUpperChar(b[j])

\* C6: setParam on a Boolean field never returns an error and marks the
\* binding set; it stores false when the input is "0", "f", "false", "n" or
\* "no" in any letter case, and true for every other non-empty input.
C6_BoolCoercion ==
    (co.done /\ co.fieldKind = "Bool" /\ co.val # <<>>) =>
      /\ co.out.err = NoError
      /\ co.out.isSet
      /\ co.out.cell.bool = ~(\E w \in C6_Words : SameIgnoringCase(co.val, w))

\* C6 happens: "No" turns a field that held true to false
C6_Witness ==
    /\ co.done /\ co.fieldKind = "Bool"
    /\ co.val = <<"N","o">> /\ co.cell.bool /\ ~co.out.cell.bool

(***************************************************************************)
(* C7                                                                      *)
(***************************************************************************)
\* C7: after a successful ParseWithDir a Boolean field whose environment
\* variable is set is true, whatever the variable's value.
C7_BoolFromEnv ==
    \A t \in Threads : Succeeded(t) =>
      \A n \in Bound(t) :
        (KindOf(t, n) = "Bool" /\ EnvKey(t, n) \in DOMAIN env)
        => rec[t][n].bool

(***************************************************************************)
(* C8                                                                      *)
(***************************************************************************)
\* the argument carries its value after "="
HasValue(arg, key) ==
    LET m == IF Len(arg) >= 2 /\ arg[2] = "-" THEN 2 ELSE 1
    IN Len(arg) > m + Len(key)

\* thread t's call passed flag.Parse
Parsed(t) ==
    /\ caller[t].active /\ caller[t].arg = "pointer to struct"
    /\ inv[t].pc \in {"resolve", "check", "drop", "usage", "returned"}

\* the position of field n's binding in the list the loop ranges over
Pos(t, n) == Cardinality({m \in Bound(t) : m <= n})

\* every config file named like Integer field n can be read and holds a
\* non-numeric string
FileBad(t, n) ==
    /\ FileEntries(t, n) # {}
    /\ \A e \in FileEntries(t, n) : e.state = "ok" /\ ~AtoiOk(e.contents)

\* no config file is found for field n and its environment variable holds a
\* non-numeric string
EnvBad(t, n) ==
    /\ FileEntries(t, n) = {}
    /\ EnvKey(t, n) \in DOMAIN env
    /\ ~AtoiOk(env[EnvKey(t, n)])

\* argument h is a flag of a bound field with a value that coerces, written
\* "-key=value" or, for a Boolean field, "-key"
AcceptedPlain(t, h) ==
    \E m \in Bound(t) :
       /\ Names(args[h], FlagKey(t, m))
       /\ (KindOf(t, m) = "Bool" \/ HasValue(args[h], FlagKey(t, m)))
       /\ Coerces(KindOf(t, m), ArgValue(args[h], FlagKey(t, m)))

\* argument j gives field n's flag a non-numeric value, and the registry
\* gets as far as that argument
FlagBad(t, n, j) ==
    /\ j \in 1..Len(args)
    /\ Names(args[j], FlagKey(t, n))
    /\ HasValue(args[j], FlagKey(t, n))
    /\ ~AtoiOk(ArgValue(args[j], FlagKey(t, n)))
    /\ \A h \in 1..(j - 1) : AcceptedPlain(t, h)

\* C8: a non-numeric string for an Integer field from a config file, the
\* environment variable or the command-line flag makes the bind call fail:
\* the call returns an error.
C8_IntegerCoercion ==
    \A t \in Threads : (Returned(t) /\ Parsed(t)) =>
      \A n \in Bound(t) :
        ( /\ KindOf(t, n) = "Int"
          /\ \/ FileBad(t, n)
             \/ EnvBad(t, n)
             \/ \E j \in 1..Len(args) : FlagBad(t, n, j) )
        => inv[t].ret # NoError

(***************************************************************************)
(* C9                                                                      *)
(***************************************************************************)
\* C9: whenever a ParseWithDir call that got past its argument check has
\* returned (with success, the mandatory-missing error, a coercion error
\* from a file or the environment, or a file read error), the process-wide
\* list params is empty.
C9_ParamsCleared ==
    \A t \in Threads : (Returned(t) /\ Parsed(t)) => params.len = 0

(***************************************************************************)
(* C10                                                                     *)
(***************************************************************************)
\* the environment variable of the call is set and not empty
EnvGiven == cd.envKey # <<>> /\ Getenv(env, cd.envKey) # <<>>

\* the flag of the call is given once on argv, as the first argument and
\* with a value that is not empty
FlagGiven ==
    /\ cd.flagKey # <<>>
    /\ Len(args) >= 1
    /\ Names(args[1], cd.flagKey)
    /\ HasValue(args[1], cd.flagKey)
    /\ ArgValue(args[1], cd.flagKey) # <<>>
    /\ \A j \in 2..Len(args) : ~Names(args[j], cd.flagKey)

\* no argument names the flag of the call
FlagAbsent == cd.flagKey = <<>> \/ ~OnArgv(cd.flagKey)

\* C10: RetrieveConfigDirectory returns the value of the environment
\* variable if it is set and not empty; otherwise the value of the flag if
\* the flag is given on argv; otherwise defaultval.
C10_EnvThenFlagThenDefault ==
    (cd.done /\ proc = "running") =>
      /\ EnvGiven => cd.result = Getenv(env, cd.envKey)
      /\ (~EnvGiven /\ FlagGiven) => cd.result = ArgValue(args[1], cd.flagKey)
      /\ (~EnvGiven /\ FlagAbsent) => cd.result = cd.defaultval

(***************************************************************************)
(* C11                                                                     *)
(***************************************************************************)
\* the regular files on the disk that carry the name field n's file tag or
\* lower-cased name gives, whatever directory the call names
OnDisk(t, n) ==
    LET f == caller[t].schema[n]
        key == IF TagGet(f.tags.file) # <<>> THEN TagGet(f.tags.file) ELSE ToLower(f.name)
    IN {e \in {tree[j] : j \in 1..Len(tree)} :
          e.type = "regular" /\ BaseName(e.path) = key}

\* C11: with an empty directory argument (Parse, or ParseWithDir with "")
\* the directory listing is empty, every binding's filename is empty, also
\* with a file tag, and after a successful call every field holds what the
\* environment, the flag and the default give, whatever files exist.  With
\* a directory, a binding's filename is the (non-empty) file tag, else the
\* lower-cased field name.
C11_FileKey ==
    \A t \in Threads : Parsed(t) =>
      /\ caller[t].entry = "Parse" => caller[t].dir = << >>
      /\ \A n \in Bound(t) :
           LET f == caller[t].schema[n]
           IN IF caller[t].dir = << >>
              THEN /\ objs[Ptr(t, n)].filename = << >>
                   /\ inv[t].configFiles = << >>
                   /\ Succeeded(t) =>
                        IF EnvKey(t, n) \in DOMAIN env
                        THEN rec[t][n] = Coerced(KindOf(t, n), env[EnvKey(t, n)])
                        ELSE IF FlagSupplies(t, n)
                        THEN rec[t][n] = Coerced(KindOf(t, n), cmdline.actual[FlagKey(t, n)])
                        ELSE rec[t][n] = DefaultOrZero(t, n)
              ELSE objs[Ptr(t, n)].filename =
                     IF TagGet(f.tags.file) # <<>> THEN TagGet(f.tags.file)
                     ELSE ToLower(f.name)

\* C11 happens: Parse returns with success, a file named by the field's
\* file tag is on the disk, and the field with the file tag stays empty
C11_Witness ==
    \E t \in Threads : Succeeded(t) /\ caller[t].entry = "Parse" /\
      \E n \in Bound(t) :
        /\ TagGet(caller[t].schema[n].tags.file) # <<>>
        /\ OnDisk(t, n) # {}
        /\ \A e \in OnDisk(t, n) : e.state = "ok" /\ e.contents # <<>>
        /\ objs[Ptr(t, n)].filename = << >>
        /\ rec[t][n] = ZeroCell

(***************************************************************************)
(* C12                                                                     *)
(***************************************************************************)
\* argument j is a flag that no binding of thread t registers
Unregistered(t, j) ==
    /\ Len(args[j]) >= 2 /\ args[j][1] = "-" /\ args[j][2] # "-"
    /\ \A n \in Bound(t) : ~Names(args[j], FlagKey(t, n))

\* C12: when argv holds flags of the bound fields and at least one flag
\* that is not registered, the call does not fail because of it (the
\* process keeps running, flag.Parse writes no error) and every registered
\* flag on argv, before or after it, has set its field.
C12_UnregisteredTolerated ==
    \A t \in Threads :
      ( /\ Parsed(t)
        /\ \A j \in 1..Len(args) : AcceptedPlain(t, j) \/ Unregistered(t, j)
        /\ \E j \in 1..Len(args) : Unregistered(t, j) )
      => /\ proc = "running"
         /\ \A n \in Bound(t) : OnArgv(FlagKey(t, n)) => FlagSupplies(t, n)

(***************************************************************************)
(* C13                                                                     *)
(***************************************************************************)
\* the positions in the traversal of the regular files named like field n
FilePositions(t, n) ==
    {j \in 1..Len(tree) : tree[j] \in FileEntries(t, n)}

\* the first and the last of them the traversal meets
FirstFile(t, n) ==
    tree[CHOOSE j \in FilePositions(t, n) : \A h \in FilePositions(t, n) : j <= h]
LastFile(t, n) ==
    tree[CHOOSE j \in FilePositions(t, n) : \A h \in FilePositions(t, n) : j >= h]

\* C13 as stated: after a successful call a field with a non-empty filename
\* holds the contents of the regular file of that base name, at any depth;
\* of several such files, the first one the traversal meets.
C13_Original ==
    \A t \in Threads : Succeeded(t) =>
      \A n \in Bound(t) :
        (FileKey(t, n) # <<>> /\ FileSupplies(t, n))
        => rec[t][n] = Coerced(KindOf(t, n), FirstFile(t, n).contents)

\* C13 amended: ... of several such files, the last one the traversal
\* meets.
C13_LastFileWins ==
    \A t \in Threads : Succeeded(t) =>
      \A n \in Bound(t) :
        ( /\ FileKey(t, n) # <<>>
          /\ FileEntries(t, n) # {}
          /\ LastFile(t, n).state = "ok"
          /\ Coerces(KindOf(t, n), LastFile(t, n).contents) )
        => rec[t][n] = Coerced(KindOf(t, n), LastFile(t, n).contents)

\* C13 happens: two files of one base name lie in two subdirectories and
\* the field holds the contents of the second
C13_Witness ==
    \E t \in Threads : Succeeded(t) /\
      \E n \in Bound(t) :
        /\ Cardinality(FileEntries(t, n)) = 2
        /\ Len(FirstFile(t, n).path) = 3 /\ Len(LastFile(t, n).path) = 3
        /\ FirstFile(t, n).contents # LastFile(t, n).contents
        /\ rec[t][n] = Coerced(KindOf(t, n), LastFile(t, n).contents)
        /\ rec[t][n] # Coerced(KindOf(t, n), FirstFile(t, n).contents)

(***************************************************************************)
(* C14                                                                     *)
(***************************************************************************)
\* some coercion for field n's binding succeeded during the call: of the
\* declared default, of a flag value, of the file's contents, or of the
\* environment variable's value when no file was read
SomeCoercionSucceeded(t, n) ==
    \/ DefaultTag(t, n).ok /\ Coerces(KindOf(t, n), DefaultTag(t, n).v)
    \/ FlagSupplies(t, n)
    \/ /\ FileEntries(t, n) # {}
       /\ LastFile(t, n).state = "ok"
       /\ Coerces(KindOf(t, n), LastFile(t, n).contents)
    \/ /\ FileEntries(t, n) = {} \/ LastFile(t, n).state = "vanished"
       /\ EnvSupplies(t, n)

\* the error line of field n is on the output, followed by the usage
Reported(t, n) ==
    /\ \E j \in 1..Len(stderr) :
         stderr[j] = OutLine("mandatory", FlagKey(t, n), EnvKey(t, n), NoError)
    /\ stderr[Len(stderr)] = UsageLine

\* C14, for the bindings whose flag is not on argv: at the mandatory check
\* a binding's isSet is true exactly if some coercion for the binding
\* succeeded during the call, and a mandatory binding for which none
\* succeeded is reported as missing.
C14_IsSetIffCoerced ==
    \A t \in Threads : PassCompleted(t) =>
      \A n \in Bound(t) : ~OnArgv(FlagKey(t, n)) =>
        /\ objs[Ptr(t, n)].isSet <=> SomeCoercionSucceeded(t, n)
        /\ (TagExists(caller[t].schema[n].tags.mandatory) /\ ~SomeCoercionSucceeded(t, n))
           => Reported(t, n)

(***************************************************************************)
(* C15                                                                     *)
(***************************************************************************)
\* the file the loop reads for field n: the last of its name in the listing
FileRead(t, n) == FileEntries(t, n) # {} /\ LastFile(t, n).state = "ok"

\* what resolving field n makes of the value old the field held: the
\* coerced file contents, else the coerced environment value, else old
ResolvedFrom(t, n, old) ==
    IF FileRead(t, n) THEN Coerced(KindOf(t, n), LastFile(t, n).contents)
    ELSE IF EnvKey(t, n) \in DOMAIN env THEN Coerced(KindOf(t, n), env[EnvKey(t, n)])
    ELSE old

\* C15: every step of the resolution loop handles the next binding in
\* discovery order and touches the storage of that binding's field only.
\* A step that succeeds leaves the field with its resolved value (file,
\* else environment, else what flag parsing left); the step that aborts
\* with a fatal error returns at once and modifies no storage at all.  So
\* at the abort the bindings before the k-th hold their resolved values,
\* the k-th field is unmodified and the later ones hold what flag parsing
\* left.
C15_AbortFrame ==
    [][ \A t \in Threads :
          (inv[t].pc = "resolve" /\ inv'[t].k = inv[t].k + 1) =>
            LET k == inv'[t].k
                n == inv'[t].list[k][2]
            IN /\ inv'[t].list[k] = Ptr(t, n) /\ Pos(t, n) = k
               /\ \A m \in 1..Len(rec[t]) : m # n => rec'[t][m] = rec[t][m]
               /\ IF inv'[t].ret = NoError
                  THEN rec'[t][n] = ResolvedFrom(t, n, rec[t][n])
                  ELSE /\ rec' = rec
                       /\ inv'[t].pc = "returned" ]_vars

\* C15 happens: the loop aborted at the second binding; the first field
\* holds its environment value, the second its default, and the third is
\* still false although its environment variable says true
C15_Witness ==
    \E t \in Threads :
      /\ Returned(t) /\ Parsed(t)
      /\ inv[t].ret.msg = "must be an integer"
      /\ inv[t].k = 2 /\ inv[t].hdr.len = 3
      /\ \E n1, n2, n3 \in Bound(t) :
           /\ Pos(t, n1) = 1 /\ Pos(t, n2) = 2 /\ Pos(t, n3) = 3
           /\ EnvSupplies(t, n1)
           /\ rec[t][n1] = Coerced(KindOf(t, n1), env[EnvKey(t, n1)])
           /\ rec[t][n1] # DefaultOrZero(t, n1)
           /\ DefaultTag(t, n2).ok /\ rec[t][n2] = DefaultOrZero(t, n2)
           /\ rec[t][n2] # ZeroCell
           /\ EnvSupplies(t, n3)
           /\ rec[t][n3] # Coerced(KindOf(t, n3), env[EnvKey(t, n3)])

(***************************************************************************)
(* C16                                                                     *)
(***************************************************************************)
\* the listing has no file for field n, or opening the listed file reports
\* "file not found"
FileNotFound(t, n) == FileEntries(t, n) = {} \/ LastFile(t, n).state = "vanished"

\* reading the listed file of field n fails with another error
FileUnreadable(t, n) == FileEntries(t, n) # {} /\ LastFile(t, n).state = "unreadable"

\* C16: for a binding whose file is not listed or not found, a call that
\* succeeds has bound the field from the environment variable if that
\* exists; a call that reaches a binding whose file cannot be read returns
\* the read error there and handles no later binding; for a binding whose
\* file is read and coerces, the field holds the file's value once the loop
\* has handled it, the loop does not abort at that binding and the call
\* never returns an error about that binding's environment variable.
C16_FileThenEnv ==
    \A t \in Threads : (Returned(t) /\ Parsed(t)) =>
      \A n \in Bound(t) :
        /\ (Succeeded(t) /\ FileNotFound(t, n) /\ EnvKey(t, n) \in DOMAIN env)
           => rec[t][n] = Coerced(KindOf(t, n), env[EnvKey(t, n)])
        /\ FileUnreadable(t, n)
           => /\ inv[t].ret # NoError
              /\ inv[t].k <= Pos(t, n)
              /\ inv[t].k = Pos(t, n) => inv[t].ret = ReadError
              /\ MandatoryLines = << >>
        /\ (FileRead(t, n) /\ Coerces(KindOf(t, n), LastFile(t, n).contents))
           => /\ inv[t].k >= Pos(t, n)
                 => rec[t][n] = Coerced(KindOf(t, n), LastFile(t, n).contents)
              /\ inv[t].k = Pos(t, n) => PassCompleted(t)
              /\ EnvKey(t, n) \in DOMAIN env
                 => inv[t].ret # IntegerError("environment variable", EnvKey(t, n),
                                              env[EnvKey(t, n)])

\* C16 happens: the call returned the read error of an unreadable file at
\* that binding, and a later binding whose file can be read was not handled
C16_Witness ==
    \E t \in Threads : Returned(t) /\ Parsed(t) /\
      \E n, m \in Bound(t) :
        /\ FileUnreadable(t, n)
        /\ inv[t].ret = ReadError /\ inv[t].k = Pos(t, n)
        /\ Pos(t, m) > Pos(t, n)
        /\ FileRead(t, m) /\ Coerces(KindOf(t, m), LastFile(t, m).contents)
        /\ rec[t][m] # Coerced(KindOf(t, m), LastFile(t, m).contents)

(***************************************************************************)
(* C17                                                                     *)
(***************************************************************************)
\* C17: when the directory argument is empty or names a directory that
\* does not exist, the traversal gives the empty mapping and the call
\* proceeds; the mapping only ever holds regular files.
C17_EmptyOrAbsentRoot ==
    \A t \in Threads :
      (caller[t].active /\ caller[t].arg = "pointer to struct" /\ inv[t].pc # "idle") =>
        /\ (caller[t].dir = << >> \/ tree = << >>)
           => (inv[t].pc # "traverse" /\ inv[t].configFiles = << >>)
        /\ \A name \in DOMAIN inv[t].configFiles :
             \E j \in 1..Len(tree) :
                /\ tree[j].path = inv[t].configFiles[name]
                /\ tree[j].type = "regular"
                /\ BaseName(tree[j].path) = name

(***************************************************************************)
(* C18                                                                     *)
(***************************************************************************)
\* the bindings of thread t's own fields, in discovery order
OwnBindings(t) ==
    LET IsBound(n) == n \in Bound(t)
    IN [j \in 1..Cardinality(Bound(t)) |->
          Ptr(t, SelectSeq([n \in 1..Len(caller[t].schema) |-> n], IsBound)[j])]

\* no source gives field n a value: no default, no flag, no environment
\* variable, no file
NoSource(t, n) ==
    /\ ~DefaultTag(t, n).ok
    /\ ~OnArgv(FlagKey(t, n))
    /\ EnvKey(t, n) \notin DOMAIN env
    /\ FileEntries(t, n) = {}

\* C18: the list an invocation's resolution loop or mandatory loop ranges
\* over differs from the invocation's own bindings (in its length, or in a
\* binding the resolution loop has handled) only if another invocation has
\* started since the flag set was last replaced: the interference comes
\* from the shared list and from nothing else.
C18_SharedList ==
    \A t \in Threads :
      ( \/ /\ inv[t].k >= 1
            /\ \/ inv[t].hdr.len # Len(OwnBindings(t))
               \/ inv[t].list # SubSeq(OwnBindings(t), 1, inv[t].k)
        \/ /\ inv[t].j >= 1
            /\ inv[t].scan.len # Len(OwnBindings(t)) )
      => \E u \in Threads \ {t} : caller[u].active /\ inv[u].pc # "idle"

\* C18 happens: both invocations have returned; the resolution loop of one
\* ran over the other's bindings instead of its own, and it returned
\* success although no source gives its mandatory fields a value, where a
\* call on its own reports them missing
C18_Witness ==
    \E t \in Threads : \E u \in Threads \ {t} :
      /\ Returned(t) /\ Returned(u)
      /\ inv[t].k >= 1
      /\ \A j \in 1..Len(inv[t].list) : inv[t].list[j][1] = u
      /\ inv[t].ret = NoError
      /\ \E n \in Bound(t) :
           /\ TagExists(caller[t].schema[n].tags.mandatory)
           /\ NoSource(t, n)
           /\ rec[t][n] = ZeroCell

====
